---- MODULE Spec2Model ----
(***************************************************************************)
(* hypernotes: the Store (a JSON file holding an array of notes) and the   *)
(* serialization of notes, as a state machine over the file's content; and *)
(* the Note objects of the caller, as a state machine over the caller's    *)
(* objects.                                                                *)
(***************************************************************************)
EXTENDS Integers, Sequences, FiniteSets, TLC

\* file: the content at the store's path; last: the call that has just returned;
\* clock: what datetime.now() reads, in seconds; heap: the caller's objects;
\* held: the caller's notes, as references into heap; env: what the git
\* commands find where the process runs; writers: the processes that write to
\* the file through a Store of their own, each with the call it is in
VARIABLES file, last, clock, heap, held, env, writers

vars == <<file, last, clock, heap, held, env, writers>>

(***************************************************************************)
(* Bounds of the model.                                                    *)
(***************************************************************************)
\* identifiers are uuid4 strings; the model has NumIds of them, string order
\* being the order of their numbers
NumIds == 2
\* wall-clock seconds run over 0..MaxTime
MaxTime == 1
\* the datetimes a caller makes lie within this many seconds of second 0
MaxStamp == 8
\* no operation is taken that would leave more records than this in the file
MaxStored == 2
\* the caller keeps at most this many notes
MaxHeld == 2
\* the caller has at most this many fields of a note set to other values than
\* Note() gave them
MaxSet == 2
\* update and remove take batches of 1..MaxBatch notes
MaxBatch == 2
\* the caller appends at most this many features to a list of a note
MaxFeatures == 1

(***************************************************************************)
(* Python values: what a Note (a dict) can hold.                           *)
(***************************************************************************)
PyNone == [t |-> "None"]
PyStr(s) == [t |-> "str", s |-> s]
\* the result of strftime(DATETIME_STRING_FORMAT) for the second sec
PyStrftime(sec) == [t |-> "str", ymdhms |-> sec]
\* a uuid4 string
PyUuid(i) == [t |-> "str", uuid4 |-> i]
PyDatetime(sec, us) == [t |-> "datetime", sec |-> sec, us |-> us]
PyList(items) == [t |-> "list", items |-> items]
\* an ordered mapping: keys (strings) and values in insertion order
PyDict(keys, vals) == [t |-> "dict", keys |-> keys, vals |-> vals]
\* an instance of a class json cannot serialize (InvalidObject of the tests)
PyObject == [t |-> "object"]
PyBool(b) == [t |-> "bool", b |-> b]
\* a float, in tenths
PyFloat(tenths) == [t |-> "float", tenths |-> tenths]

EmptyDict == PyDict(<<>>, <<>>)

HasKey(d, k) == \E i \in DOMAIN d.keys : d.keys[i] = k

\* d[k]
GetItem(d, k) == d.vals[CHOOSE i \in DOMAIN d.keys : d.keys[i] = k]

\* d.get(k)
DictGet(d, k) == IF HasKey(d, k) THEN GetItem(d, k) ELSE PyNone

\* d[k] = v: an existing key keeps its position, a new key goes last
SetItem(d, k, v) ==
    IF HasKey(d, k)
    THEN PyDict(d.keys, [i \in DOMAIN d.vals |-> IF d.keys[i] = k THEN v ELSE d.vals[i]])
    ELSE PyDict(Append(d.keys, k), Append(d.vals, v))

(***************************************************************************)
(* JSON text, as the value it denotes.                                     *)
(***************************************************************************)
JNull == [j |-> "null"]
JString(p) == [j |-> "string", p |-> p]
JArray(items) == [j |-> "array", items |-> items]
JObject(keys, vals) == [j |-> "object", keys |-> keys, vals |-> vals]
\* a file holding no complete JSON document (opened for writing, nothing written)
EmptyText == [j |-> "nothing"]
\* no file at the path
NoFile == [j |-> "no file"]
\* a file holding the start of one document and, behind it, the rest of a
\* longer one, n records long in all: no JSON document
Garbled(n) == [j |-> "garbled", records |-> n]

(***************************************************************************)
(* Timestamps.                                                             *)
(***************************************************************************)
\* what strftime gives for a second of a year before 1000: %Y is the year
\* without leading zeros (the C library's strftime on Linux), "999-12-31T23-59-59"
PyStrftimeUnpadded(sec) == [t |-> "str", unpadded |-> sec]

\* dt.strftime(DATETIME_STRING_FORMAT): the format has no field for
\* microseconds; second 0 is 1000-01-01T00:00:00, the seconds below it are
\* those of the years before 1000
_format_datetime(dt) == IF dt.sec < 0 THEN PyStrftimeUnpadded(dt.sec) ELSE PyStrftime(dt.sec)

IsStrftime(p) == p.t = "str" /\ "ymdhms" \in DOMAIN p

\* as _parse_datetime, were the time of day not read from the string
ParseDatetimeDateOnly(p) == PyDatetime(0, 0)

\* datetime.strptime(dt_str, DATETIME_STRING_FORMAT), defined where it does not raise
_parse_datetime(p) == PyDatetime(p.ymdhms, 0)

(***************************************************************************)
(* json.dumps(obj, cls=DatetimeJSONEncoder)                                *)
(***************************************************************************)
RECURSIVE Serializable(_)
\* FALSE where JSONEncoder.default raises TypeError
Serializable(v) ==
    CASE v.t = "list" -> \A i \in DOMAIN v.items : Serializable(v.items[i])
      [] v.t = "dict" -> \A i \in DOMAIN v.vals : Serializable(v.vals[i])
      [] v.t = "object" -> FALSE
      [] OTHER -> TRUE

\* what default returns for a datetime, a dict which is then encoded itself
DatetimeJSONEncoder_default(obj) == PyDict(<<"_datetime">>, <<_format_datetime(obj)>>)

RECURSIVE Encode(_)
Encode(v) ==
    CASE v.t = "None" -> JNull
      [] v.t = "str" -> JString(v)
      [] v.t = "list" -> JArray([i \in DOMAIN v.items |-> Encode(v.items[i])])
      [] v.t = "dict" -> JObject(v.keys, [i \in DOMAIN v.vals |-> Encode(v.vals[i])])
      [] v.t = "datetime" -> Encode(DatetimeJSONEncoder_default(v))

(***************************************************************************)
(* json.load(f, object_hook=_deserialize_datetime)                         *)
(***************************************************************************)
\* the hook's result for a decoded object, defined where strptime does not raise
_deserialize_datetime(obj) ==
    LET _datetime == DictGet(obj, "_datetime")
    IN  IF _datetime # PyNone THEN _parse_datetime(_datetime) ELSE obj

RECURSIVE Decode(_)
Decode(x) ==
    CASE x.j = "null" -> PyNone
      [] x.j = "string" -> x.p
      [] x.j = "array" -> PyList([i \in DOMAIN x.items |-> Decode(x.items[i])])
      [] x.j = "object" ->
            _deserialize_datetime(PyDict(x.keys, [i \in DOMAIN x.vals |-> Decode(x.vals[i])]))

RECURSIVE HookRaises(_)
\* TRUE where the hook raises while the text is decoded: strptime is handed
\* something that is not a string in DATETIME_STRING_FORMAT
HookRaises(x) ==
    CASE x.j = "array" -> \E i \in DOMAIN x.items : HookRaises(x.items[i])
      [] x.j = "object" ->
            \/ \E i \in DOMAIN x.vals : HookRaises(x.vals[i])
            \/ LET d == PyDict(x.keys, [i \in DOMAIN x.vals |-> Decode(x.vals[i])])
               IN  DictGet(d, "_datetime") # PyNone /\ ~IsStrftime(DictGet(d, "_datetime"))
      [] OTHER -> FALSE

(***************************************************************************)
(* Note                                                                    *)
(***************************************************************************)
_initial_features_structure ==
    PyDict(<<"identifier", "binary", "categorical", "numerical">>,
           <<PyList(<<>>), PyList(<<>>), PyList(<<>>), PyList(<<>>)>>)

\* Note(text) at the second now, with uuid number i, as it is when _start
\* goes on to the git probe (and as it stays outside a git repository): the
\* keys in the order __init__, _set_up_initial_structure and _start set them
Note_init(text, i, now) ==
    PyDict(<<"text", "model", "parameters", "features", "target", "metrics", "info",
             "start_datetime", "end_datetime", "identifier", "python_path", "git">>,
           <<PyStr(text), PyNone, EmptyDict, _initial_features_structure, PyNone,
             EmptyDict, EmptyDict, PyDatetime(now, 0), PyNone, PyUuid(i),
             PyStr("sys.executable"), EmptyDict>>)

\* what the git commands find where Note() is called: no git executable on the
\* PATH, a directory outside every repository, a repository in which nothing
\* has been committed, a repository with a commit
GitOutcomes == {"no git", "no repository", "no commit", "repository"}

\* subprocess.call(["git", "branch"]) != 0 gives False; call raises where
\* there is no executable: [exc, result]
_is_in_git_repo(git) ==
    IF git = "no git" THEN [exc |-> "FileNotFoundError", result |-> FALSE]
    ELSE [exc |-> "", result |-> git # "no repository"]

\* the three check_output calls, each raising on a nonzero exit status;
\* rev-parse of HEAD exits with 128 where nothing has been committed:
\* [exc, note]
_add_git_info(note, git) ==
    LET probe == _is_in_git_repo(git)
        named == SetItem(note, "git", PyDict(<<"repo_name">>, <<PyStr(".git")>>))
    IN  IF probe.exc # "" THEN [exc |-> probe.exc, note |-> note]
        ELSE IF ~probe.result THEN [exc |-> "", note |-> note]
        ELSE IF git = "no commit" THEN [exc |-> "CalledProcessError", note |-> named]
        ELSE [exc |-> "",
              note |-> SetItem(note, "git",
                               PyDict(<<"repo_name", "branch", "commit">>,
                                      <<PyStr(".git"), PyStr("master"), PyStr("c74324d")>>))]

\* Note(text) where the git commands find git: [exc, note]
Note(text, i, now, git) == _add_git_info(Note_init(text, i, now), git)

\* note.end() at the second now (_current_datetime drops the microseconds)
end(note, now) == SetItem(note, "end_datetime", PyDatetime(now, 0))

\* copy.deepcopy(note): values are immutable here, the copy is the value
deepcopy(note) == note

\* as _prepare_note_for_storing, were end() called whatever end_datetime is
PrepareAlwaysEnds(note, now) == deepcopy(end(note, now))

_prepare_note_for_storing(note, now) ==
    deepcopy(IF GetItem(note, "end_datetime") = PyNone THEN end(note, now) ELSE note)

(***************************************************************************)
(* Store                                                                   *)
(***************************************************************************)
Raised(e, f) == [exc |-> e, file |-> f]
Returned(f) == [exc |-> "", file |-> f]

\* datetime < datetime
DatetimeLT(a, b) == a.sec < b.sec \/ (a.sec = b.sec /\ a.us < b.us)

\* the sort key lambda x: (x.end_datetime, x.identifier)
SortKey(n) == <<GetItem(n, "end_datetime"), GetItem(n, "identifier")>>

\* as KeyLT, were the key the end_datetime alone
KeyLTEndOnly(a, b) == a[1] # b[1] /\ DatetimeLT(a[1], b[1])

\* tuple < tuple: the first differing component decides
KeyLT(a, b) ==
    IF a[1] # b[1] THEN DatetimeLT(a[1], b[1]) ELSE a[2].uuid4 < b[2].uuid4

\* comparing None with a datetime raises TypeError; a sort of a list makes
\* that comparison exactly when the list holds both
SortRaises(notes) ==
    \E i, k \in DOMAIN notes :
        /\ GetItem(notes[i], "end_datetime") = PyNone
        /\ GetItem(notes[k], "end_datetime") # PyNone

\* where sorted(..., reverse=True) puts n into the sorted list s: behind every
\* element that is not smaller (the sort is stable)
InsertSorted(s, n) ==
    LET p == Cardinality({i \in DOMAIN s : ~KeyLT(SortKey(s[i]), SortKey(n))})
    IN  SubSeq(s, 1, p) \o <<n>> \o SubSeq(s, p + 1, Len(s))

RECURSIVE _sort_notes(_)
_sort_notes(notes) ==
    IF Len(notes) = 0 THEN <<>>
    ELSE InsertSorted(_sort_notes(SubSeq(notes, 1, Len(notes) - 1)), notes[Len(notes)])

_get_identifers_of_notes(notes) == [i \in DOMAIN notes |-> GetItem(notes[i], "identifier")]

Range(s) == {s[i] : i \in DOMAIN s}

\* as _notes_are_subset, were notes looked up by value (note in all_notes)
NotesAreSubsetByValue(notes_subset, all_notes) ==
    \A i \in DOMAIN notes_subset : notes_subset[i] \in Range(all_notes)

\* as _notes_are_subset, were any() written for all()
NotesAreSubsetAny(notes_subset, all_notes) ==
    \E identifier \in Range(_get_identifers_of_notes(notes_subset)) :
        identifier \in Range(_get_identifers_of_notes(all_notes))

_notes_are_subset(notes_subset, all_notes) ==
    \A identifier \in Range(_get_identifers_of_notes(notes_subset)) :
        identifier \in Range(_get_identifers_of_notes(all_notes))

\* as _filter_notes, were the notes matched by value, not by identifier
FilterNotesByValue(notes_to_filter_out, all_notes) ==
    SelectSeq(all_notes, LAMBDA note : note \notin Range(notes_to_filter_out))

_filter_notes(notes_to_filter_out, all_notes) ==
    SelectSeq(all_notes,
              LAMBDA note : GetItem(note, "identifier")
                                \notin Range(_get_identifers_of_notes(notes_to_filter_out)))

\* as _json_dump, were it json.dump(obj, f) into the file already opened for
\* writing: the file is truncated before the encoder raises
JsonDumpIntoOpenFile(obj, f) ==
    IF ~Serializable(obj) THEN [exc |-> "TypeError", file |-> EmptyText]
    ELSE [exc |-> "", file |-> Encode(obj)]

\* json.dumps first, the file is opened for writing only with the string in hand
_json_dump(obj, f) ==
    IF ~Serializable(obj) THEN Raised("TypeError", f) ELSE Returned(Encode(obj))

\* dict(note) for every note, as a list
_notes_to_raw_dicts(notes) == PyList(notes)

\* Note(content=raw_content) for every element
_raw_dicts_to_notes(raw_dicts) == raw_dicts.items

_save_notes(notes, f) ==
    IF SortRaises(notes) THEN Raised("TypeError", f)
    ELSE _json_dump(_notes_to_raw_dicts(_sort_notes(notes)), f)

\* Store._json_load: [exc, content]
_json_load(f) ==
    IF f.j \in {"no file", "nothing", "garbled"}
    THEN [exc |-> IF f = NoFile THEN "FileNotFoundError" ELSE "JSONDecodeError",
          content |-> PyNone]
    ELSE IF HookRaises(f) THEN [exc |-> "ValueError", content |-> PyNone]
    ELSE [exc |-> "", content |-> Decode(f)]

\* Store._load: [exc, notes]
_load(f) ==
    LET notes_raw == _json_load(f)
    IN  IF notes_raw.exc # "" THEN [exc |-> notes_raw.exc, notes |-> <<>>]
        ELSE LET notes == _raw_dicts_to_notes(notes_raw.content)
             IN  IF SortRaises(notes) THEN [exc |-> "TypeError", notes |-> <<>>]
                 ELSE [exc |-> "", notes |-> _sort_notes(notes)]

\* Store.load()
load(f) == _load(f)

(***************************************************************************)
(* The table form: load(return_dataframe=True)                             *)
(***************************************************************************)
\* d.items() as a list of pairs
ItemsOf(d) == [i \in DOMAIN d.keys |-> [key |-> d.keys[i], value |-> d.vals[i]]]

RECURSIVE DictOfItems(_)
\* dict(items): a later pair of a key replaces the value of the earlier one
DictOfItems(items) ==
    IF Len(items) = 0 THEN EmptyDict
    ELSE SetItem(DictOfItems(SubSeq(items, 1, Len(items) - 1)),
                 items[Len(items)].key, items[Len(items)].value)

RECURSIVE _flatten_dict(_, _), FlattenItems(_, _, _)
\* the list items of _flatten_dict after the first n entries of d
FlattenItems(d, parent_key, n) ==
    IF n = 0 THEN <<>>
    ELSE LET v == d.vals[n]
             new_key == IF parent_key # "" THEN parent_key \o "." \o d.keys[n] ELSE d.keys[n]
         IN  FlattenItems(d, parent_key, n - 1)
                 \o (IF v.t = "dict" THEN ItemsOf(_flatten_dict(v, new_key))
                     ELSE <<[key |-> new_key, value |-> v]>>)

_flatten_dict(d, parent_key) == DictOfItems(FlattenItems(d, parent_key, Len(d.keys)))

_flatten_notes(notes) == [i \in DOMAIN notes |-> _flatten_dict(notes[i], "")]

\* list(set(...)): the keys as a set, every use of it sorts them
_all_keys_from_dicts(ds) == UNION {Range(ds[i].keys) : i \in DOMAIN ds}

\* the keys nested under the fields of the notes of this model
SubKeys ==
    {"k", "k._datetime", "identifier", "binary", "categorical", "numerical",
     "recall", "impute_missings", "branch"}


\* the column names that occur, in the order of Python's string comparison
SortedNames ==
    <<"alpha", "end_datetime", "features.binary", "features.categorical",
      "features.identifier", "features.numerical", "git.branch", "identifier", "info.k",
      "info.k._datetime", "information", "metrics", "metrics.recall", "model", "model.k",
      "parameters.impute_missings", "python_path", "start_datetime", "target", "text", "zeta">>

\* sorted(names), for names that occur
Sorted(names) == SelectSeq(SortedNames, LAMBDA x : x \in names)

\* x.startswith(prefix), for names that occur: the prefix, the prefix and a key
\* nested under it, a key of a caller's own that begins with it ("information")
StartsWith(x, prefix) ==
    \/ x = prefix
    \/ \E k \in SubKeys : x = prefix \o "." \o k
    \/ x = prefix \o "rmation"

\* as _filter_sequence_if_startswith, were the test x == startswith
FilterIfEquals(seq, startswith) == Sorted({x \in seq : x = startswith})

_filter_sequence_if_startswith(seq, startswith) ==
    Sorted({x \in seq : StartsWith(x, startswith)})

\* _key_order(keys), no additional_keys_subset given
_key_order(keys) ==
    LET key_order ==
            <<"start_datetime", "end_datetime", "text", "model", "identifier">>
                \o _filter_sequence_if_startswith(keys, "metrics")
                \o _filter_sequence_if_startswith(keys, "parameters")
                \o _filter_sequence_if_startswith(keys, "features")
                \o <<"target">>
                \o _filter_sequence_if_startswith(keys, "info")
                \o _filter_sequence_if_startswith(keys, "git")
                \o <<"python_path">>
    IN  key_order \o Sorted({k \in keys : k \notin Range(key_order)})

\* _pandas_dict(notes): [exc, table]; column_dict[k] raises KeyError for a key
\* of the key order that no note has
_pandas_dict(notes) ==
    LET flat_dicts == _flatten_notes(notes)
        all_keys == _all_keys_from_dicts(flat_dicts)
        key_order == _key_order(all_keys)
        column(c) == PyList([i \in DOMAIN flat_dicts |-> DictGet(flat_dicts[i], c)])
    IN  IF \E i \in DOMAIN key_order : key_order[i] \notin all_keys
        THEN [exc |-> "KeyError", table |-> EmptyDict]
        ELSE [exc |-> "",
              table |-> DictOfItems([i \in DOMAIN key_order |->
                                        [key |-> key_order[i], value |-> column(key_order[i])]])]

\* pd.DataFrame(data)
DataFrame(data) == [t |-> "DataFrame", data |-> data]

\* _to_pandas(notes), pandas being installed or not: [exc, notes]
_to_pandas(notes, pandas_installed) ==
    IF ~pandas_installed THEN [exc |-> "ImportError", notes |-> <<>>]
    ELSE IF _pandas_dict(notes).exc # "" THEN [exc |-> _pandas_dict(notes).exc, notes |-> <<>>]
    ELSE [exc |-> "", notes |-> DataFrame(deepcopy(_pandas_dict(notes).table))]

\* Store.load(return_dataframe): [exc, notes], notes being the list or the table
load_return_dataframe(f, return_dataframe, pandas_installed) ==
    LET loaded_notes == _load(f)
    IN  IF loaded_notes.exc = "" /\ return_dataframe
        THEN _to_pandas(loaded_notes.notes, pandas_installed)
        ELSE loaded_notes

\* Store.add(note), end() reading the second now: [exc, file, note], note being
\* the caller's note after the call
add(f, note, now) ==
    LET all_notes == load(f)
    IN  IF all_notes.exc # "" THEN [exc |-> all_notes.exc, file |-> f, note |-> note]
        ELSE IF _notes_are_subset(<<note>>, all_notes.notes)
        THEN [exc |-> "Exception", file |-> f, note |-> note]
        ELSE LET stored == _prepare_note_for_storing(note, now)
                 saved == _save_notes(Append(all_notes.notes, stored), f)
             IN  [exc |-> saved.exc, file |-> saved.file, note |-> stored]

\* Store.update(notes)
update(f, notes_to_be_updated) ==
    LET stored_notes == load(f)
    IN  IF stored_notes.exc # "" THEN Raised(stored_notes.exc, f)
        ELSE IF ~_notes_are_subset(notes_to_be_updated, stored_notes.notes)
        THEN Raised("AssertionError", f)
        ELSE _save_notes(_filter_notes(notes_to_be_updated, stored_notes.notes)
                            \o notes_to_be_updated, f)

\* as remove, without the assertion
RemoveUnchecked(f, notes_to_be_removed) ==
    LET stored_notes == load(f)
    IN  IF stored_notes.exc # "" THEN [exc |-> stored_notes.exc, file |-> f]
        ELSE _save_notes(_filter_notes(notes_to_be_removed, stored_notes.notes), f)

\* Store.remove(notes)
remove(f, notes_to_be_removed) ==
    LET stored_notes == load(f)
    IN  IF stored_notes.exc # "" THEN Raised(stored_notes.exc, f)
        ELSE IF ~_notes_are_subset(notes_to_be_removed, stored_notes.notes)
        THEN Raised("AssertionError", f)
        ELSE _save_notes(_filter_notes(notes_to_be_removed, stored_notes.notes), f)

(***************************************************************************)
(* The caller: the notes it passes to the store.                           *)
(***************************************************************************)
Times == 0 .. MaxTime

\* values of end_datetime: open, closed by end() at a full second, or set
\* through the setter to a datetime.now() that carries microseconds
EndValues == {PyNone} \cup {PyDatetime(s, 0) : s \in Times} \cup {PyDatetime(0, 1)}

\* a note made by Note(""), then end_datetime and info["k"] set by the caller
MadeNote(i, e, v) ==
    LET fresh == SetItem(Note_init("", i, 0), "end_datetime", e)
    IN  IF v = PyNone THEN fresh
        ELSE SetItem(fresh, "info", SetItem(GetItem(fresh, "info"), "k", v))

\* info["k"] as a JSON object that happens to have the key "_datetime"
DatetimeLookalike == PyDict(<<"_datetime">>, <<PyStrftime(0)>>)
BrokenLookalike == PyDict(<<"_datetime">>, <<PyStr("soon")>>)

NoteInputs ==
    {MadeNote(i, e, PyNone) : i \in 1 .. NumIds, e \in EndValues}
        \cup {MadeNote(i, e, PyObject) : i \in 1 .. NumIds, e \in {PyNone, PyDatetime(0, 0)}}
        \cup {MadeNote(i, PyDatetime(0, 0), v) :
                i \in 1 .. NumIds, v \in {DatetimeLookalike, BrokenLookalike}}

Batches(S) == UNION {[1 .. n -> S] : n \in 1 .. MaxBatch}

\* remove reads nothing but the identifiers of the notes it is given
RemoveInputs == {MadeNote(i, PyDatetime(0, 0), PyNone) : i \in 1 .. NumIds}

NumRecords(f) == IF f.j = "array" THEN Len(f.items) ELSE 0

(***************************************************************************)
(* The state machine: one call at a time; last is the call that has just   *)
(* returned (its arguments, the file before it, what it raised, what it    *)
(* gave back), until the caller goes on.                                   *)
(***************************************************************************)
NoCall == [op |-> "none", pre |-> NoFile, args |-> <<>>, exc |-> "", out |-> <<>>]

\* as _create_store_if_not_exists, were the empty list saved whatever is there
CreateStoreAlways(f) == _save_notes(<<>>, f).file

\* Store(path): the file is written, as an empty array, if there is none
_create_store_if_not_exists(f) == IF f # NoFile THEN f ELSE _save_notes(<<>>, f).file

\* the call Store(path) on a path where the file was pre
Constructed(pre) == [op |-> "Store", pre |-> pre, args |-> <<>>, exc |-> "", out |-> <<>>]

\* Store(path) has returned, there was no file at the path; the caller of Spec
\* holds no Note objects: it passes the notes of NoteInputs
Init ==
    /\ file = _create_store_if_not_exists(NoFile)
    /\ last = Constructed(NoFile)
    /\ clock = 0
    /\ heap = <<>>
    /\ held = <<>>
    /\ env = "no repository"
    /\ writers = <<>>

\* one more Store(path) on the path of the store
Construct ==
    /\ last = NoCall
    /\ file' = _create_store_if_not_exists(file)
    /\ last' = Constructed(file)
    /\ UNCHANGED <<clock, heap, held, env, writers>>

\* as Load, were what was loaded saved again
LoadAndSave ==
    /\ last = NoCall
    /\ LET r == load(file)
       IN  /\ file' = IF r.exc = "" THEN _save_notes(r.notes, file).file ELSE file
           /\ last' = [op |-> "load", pre |-> file, args |-> <<>>, exc |-> r.exc,
                        out |-> r.notes]
    /\ UNCHANGED <<clock, heap, held, env, writers>>

\* store.load() and store.load(return_dataframe=True)
Load ==
    /\ last = NoCall
    /\ \E return_dataframe \in BOOLEAN, pandas_installed \in BOOLEAN :
          LET r == load_return_dataframe(file, return_dataframe, pandas_installed)
          IN  last' = [op |-> IF return_dataframe THEN "load_dataframe" ELSE "load",
                       pre |-> file, args |-> <<>>, exc |-> r.exc, out |-> r.notes]
    /\ UNCHANGED <<file, clock, heap, held, env, writers>>

Add ==
    /\ last = NoCall
    /\ \E note \in NoteInputs, now \in Times :
          LET r == add(file, note, now)
          IN  /\ NumRecords(r.file) <= MaxStored
              /\ file' = r.file
              /\ last' = [op |-> "add", pre |-> file, args |-> <<note>>, exc |-> r.exc,
                          out |-> <<r.note>>]
    /\ UNCHANGED <<clock, heap, held, env, writers>>

Update ==
    /\ last = NoCall
    /\ \E notes \in Batches(NoteInputs) :
          LET r == update(file, notes)
          IN  /\ NumRecords(r.file) <= MaxStored
              /\ file' = r.file
              /\ last' = [op |-> "update", pre |-> file, args |-> notes, exc |-> r.exc,
                          out |-> <<>>]
    /\ UNCHANGED <<clock, heap, held, env, writers>>

Remove ==
    /\ last = NoCall
    /\ \E notes \in Batches(RemoveInputs) :
          LET r == remove(file, notes)
          IN  /\ file' = r.file
              /\ last' = [op |-> "remove", pre |-> file, args |-> notes, exc |-> r.exc,
                          out |-> <<>>]
    /\ UNCHANGED <<clock, heap, held, env, writers>>

\* the caller goes on to its next call
Return ==
    /\ last # NoCall
    /\ last' = NoCall
    /\ UNCHANGED <<file, clock, heap, held, env, writers>>

Next == Construct \/ Load \/ Add \/ Update \/ Remove \/ Return

Spec == Init /\ [][Next]_vars

(***************************************************************************)
(* The caller's objects. A Note is a mutable dict of values some of which  *)
(* are mutable dicts and lists themselves: heap is the sequence of the     *)
(* objects made so far, a reference is an index into it.                   *)
(***************************************************************************)
PyRef(a) == [t |-> "ref", at |-> a]

IsContainer(v) == v.t \in {"dict", "list"}

Children(v) == IF v.t = "dict" THEN v.vals ELSE v.items

WithChildren(v, c) == IF v.t = "dict" THEN PyDict(v.keys, c) ELSE PyList(c)

RECURSIVE New(_, _), NewAll(_, _)
\* the value v made of new objects on the heap h: [heap, val], val being the
\* reference to the outermost of them (v itself where v is no container)
New(h, v) ==
    IF ~IsContainer(v) THEN [heap |-> h, val |-> v]
    ELSE LET made == NewAll(h, Children(v))
         IN  [heap |-> Append(made.heap, WithChildren(v, made.vals)),
              val |-> PyRef(Len(made.heap) + 1)]

\* the values of the sequence s, one after the other: [heap, vals]
NewAll(h, s) ==
    IF Len(s) = 0 THEN [heap |-> h, vals |-> <<>>]
    ELSE LET front == NewAll(h, SubSeq(s, 1, Len(s) - 1))
             made == New(front.heap, s[Len(s)])
         IN  [heap |-> made.heap, vals |-> Append(front.vals, made.val)]

RECURSIVE Value(_, _)
\* the value r stands for on the heap h
Value(h, r) ==
    IF r.t # "ref" THEN r
    ELSE WithChildren(h[r.at],
                      [i \in DOMAIN Children(h[r.at]) |-> Value(h, Children(h[r.at])[i])])

\* copy.copy(x): a new outer object holding the very objects x holds
copy_copy(h, x) == [heap |-> Append(h, h[x.at]), val |-> PyRef(Len(h) + 1)]

\* copy.deepcopy(x) of an object of the caller: new objects throughout
copy_deepcopy(h, x) == New(h, Value(h, x))

\* x[key] = value
SetField(h, x, key, value) == [h EXCEPT ![x.at] = SetItem(@, key, value)]

\* Note._current_datetime
_current_datetime(now) == PyDatetime(now, 0)

\* as Note_content, were _set_up_initial_structure run on the note all the same
NoteContentPopulated(h, content) ==
    LET made == copy_copy(h, content)
        model == SetField(made.heap, made.val, "model", PyNone)
        identifier == SetField(model, made.val, "identifier", PyUuid(1))
    IN  [heap |-> SetField(identifier, made.val, "git", EmptyDict), val |-> made.val]

\* super().__init__(content), the dict constructor given a mapping: a new
\* dict with the keys of content in their order, holding the very values
\* content holds: [heap, val]
Note_content(h, content) == [heap |-> Append(h, h[content.at]), val |-> PyRef(Len(h) + 1)]

\* Note(text, content), uuid4 giving the number i, the git commands finding
\* git: [exc, heap, val]
Note_new(h, text, content, i, now, git) ==
    IF content # PyNone
    THEN LET made == Note_content(h, content)
         IN  [exc |-> "", heap |-> made.heap, val |-> made.val]
    ELSE LET made == Note(text, i, now, git)
             new == New(h, made.note)
         IN  [exc |-> made.exc, heap |-> new.heap, val |-> new.val]

\* as Note_end, were the datetime written under the key of the start
NoteEndWrongKey(h, note, now) == SetField(h, note, "start_datetime", _current_datetime(now))

\* as Note_end, were a note that is closed left as it is
NoteEndOnce(h, note, now) ==
    IF GetItem(h[note.at], "end_datetime") # PyNone THEN h
    ELSE SetField(h, note, "end_datetime", _current_datetime(now))

\* note.end()
Note_end(h, note, now) == SetField(h, note, "end_datetime", _current_datetime(now))

\* Note.from_note(note), uuid4 giving the number i: [heap, val]
from_note(h, note, i, now) ==
    LET new_note == copy_deepcopy(h, note)
        started == SetField(new_note.heap, new_note.val, "start_datetime",
                            _current_datetime(now))
    IN  [heap |-> SetField(started, new_note.val, "identifier", PyUuid(i)),
         val |-> new_note.val]

\* note.features["numerical"].append(x)
features_numerical_append(h, note, x) ==
    LET features == GetItem(h[note.at], "features")
        numerical == GetItem(h[features.at], "numerical")
    IN  [h EXCEPT ![numerical.at] = PyList(Append(@.items, x))]

\* the caller's notes as values
HeldNotes == [k \in DOMAIN held |-> Value(heap, held[k])]

\* uuid4 does not give an identifier a second time
FreshIds ==
    {i \in 1 .. NumIds : \A k \in DOMAIN held : GetItem(heap[held[k].at], "identifier") # PyUuid(i)}

Called(op, args, exc, out, at) ==
    [op |-> op, pre |-> file, args |-> args, exc |-> exc, out |-> out, at |-> at,
     before |-> HeldNotes]

\* Store(path) has returned, there was no file at the path; the caller holds no
\* note yet
NoteInit ==
    /\ file = _create_store_if_not_exists(NoFile)
    /\ last = Constructed(NoFile)
    /\ clock = 0
    /\ heap = <<>>
    /\ held = <<>>
    /\ env \in GitOutcomes
    /\ writers = <<>>

\* a second passes
Tick ==
    /\ last = NoCall
    /\ clock < MaxTime
    /\ clock' = clock + 1
    /\ UNCHANGED <<file, last, heap, held, env, writers>>

\* note = Note(); where it raises the caller has no note more than before
NewNote ==
    /\ last = NoCall
    /\ \E i \in FreshIds :
          LET r == Note_new(heap, "", PyNone, i, clock, env)
          IN  IF r.exc # ""
              THEN /\ last' = Called("Note", <<>>, r.exc, <<>>, <<>>)
                   /\ UNCHANGED <<heap, held, env, writers>>
              ELSE /\ heap' = r.heap
                   /\ held' = Append(held, r.val)
                   /\ last' = Called("Note", <<>>, "", <<Value(r.heap, r.val)>>,
                                     <<Len(held) + 1>>)
    /\ UNCHANGED <<file, clock, env, writers>>

\* dicts a caller passes as content: none of the well-known keys, some of them
\* in another order than Note() sets them, or all of them (a record as load
\* decodes it)
Contents ==
    {EmptyDict,
     PyDict(<<"git", "identifier", "text">>,
            <<PyDict(<<"branch">>, <<PyStr("b")>>), PyUuid(NumIds), PyStr("t")>>),
     end(Note_init("t", NumIds, 0), 0)}

\* Note(content=c) for a dict c of the caller; the caller keeps neither
NoteContent ==
    /\ last = NoCall
    /\ \E c \in Contents :
          LET given == New(heap, c)
              r == Note_new(given.heap, "", given.val, 1, clock, env)
          IN  last' = Called("Note_content", <<c>>, r.exc,
                             IF r.exc # "" THEN <<>>
                             ELSE <<Value(r.heap, r.val), r.heap[r.val.at],
                                    given.heap[given.val.at], r.val, given.val>>,
                             <<>>)
    /\ UNCHANGED <<file, clock, heap, held, env, writers>>

\* held[k].end()
End ==
    /\ last = NoCall
    /\ \E k \in DOMAIN held :
          /\ heap' = Note_end(heap, held[k], clock)
          /\ last' = Called("end", <<HeldNotes[k]>>, "", <<>>, <<k>>)
    /\ UNCHANGED <<file, clock, held, env, writers>>

\* note = Note.from_note(held[k])
FromNote ==
    /\ last = NoCall
    /\ \E k \in DOMAIN held, i \in FreshIds :
          LET r == from_note(heap, held[k], i, clock)
          IN  /\ heap' = r.heap
              /\ held' = Append(held, r.val)
              /\ last' = Called("from_note", <<HeldNotes[k]>>, "", <<Value(r.heap, r.val)>>,
                                <<k, Len(held) + 1>>)
    /\ UNCHANGED <<file, clock, env, writers>>

\* as AppendFeature, were the list the very object a store keeps and writes
AppendFeatureStored ==
    /\ last = NoCall
    /\ \E k \in DOMAIN held :
          LET appended == features_numerical_append(heap, held[k], PyStr("x"))
          IN  /\ Len(GetItem(GetItem(HeldNotes[k], "features"), "numerical").items) < MaxFeatures
              /\ heap' = appended
              /\ file' = update(file, <<Value(appended, held[k])>>).file
              /\ last' = Called("append", <<HeldNotes[k]>>, "", <<>>, <<k>>)
    /\ UNCHANGED <<clock, held, env, writers>>

\* held[k].features["numerical"].append("x")
AppendFeature ==
    /\ last = NoCall
    /\ \E k \in DOMAIN held :
          /\ Len(GetItem(GetItem(HeldNotes[k], "features"), "numerical").items) < MaxFeatures
          /\ heap' = features_numerical_append(heap, held[k], PyStr("x"))
          /\ last' = Called("append", <<HeldNotes[k]>>, "", <<>>, <<k>>)
    /\ UNCHANGED <<file, clock, held, env, writers>>

\* store.add(held[k]): what end() does to the note, it does to the caller's object
AddHeld ==
    /\ last = NoCall
    /\ \E k \in DOMAIN held :
          LET r == add(file, HeldNotes[k], clock)
          IN  /\ file' = r.file
              /\ heap' = SetField(heap, held[k], "end_datetime", GetItem(r.note, "end_datetime"))
              /\ last' = Called("add", <<HeldNotes[k]>>, r.exc, <<r.note>>, <<k>>)
    /\ UNCHANGED <<clock, held, env, writers>>

\* store.update([held[k]])
UpdateHeld ==
    /\ last = NoCall
    /\ \E k \in DOMAIN held :
          LET r == update(file, <<HeldNotes[k]>>)
          IN  /\ file' = r.file
              /\ last' = Called("update", <<HeldNotes[k]>>, r.exc, <<>>, <<k>>)
    /\ UNCHANGED <<clock, heap, held, env, writers>>

\* note = store.load()[j]: the notes are made of what json.load has just
\* decoded, objects nothing else refers to; the caller keeps one of them
LoadHeld ==
    /\ last = NoCall
    /\ Len(held) < MaxHeld
    /\ LET r == load(file)
       IN  /\ r.exc = ""
           /\ \E j \in DOMAIN r.notes :
                  LET made == New(heap, r.notes[j])
                  IN  /\ heap' = made.heap
                      /\ held' = Append(held, made.val)
                      /\ last' = Called("load", <<>>, "", r.notes, <<Len(held) + 1>>)
    /\ UNCHANGED <<file, clock, env, writers>>

NoteNext ==
    Tick \/ NewNote \/ NoteContent \/ End \/ FromNote \/ AppendFeature \/ AddHeld \/ Return

NoteSpec == NoteInit /\ [][NoteNext]_vars

(***************************************************************************)
(* A caller that keeps its notes while the store holds them: it adds them, *)
(* goes on changing them, loads, changes what it loaded, and updates.      *)
(***************************************************************************)
\* Store(path) has returned; the process runs outside a git repository
KeeperInit ==
    /\ file = _create_store_if_not_exists(NoFile)
    /\ last = Constructed(NoFile)
    /\ clock = 0
    /\ heap = <<>>
    /\ held = <<>>
    /\ env = "no repository"
    /\ writers = <<>>

KeeperNext ==
    Tick \/ NewNote \/ End \/ AppendFeature \/ AddHeld \/ UpdateHeld \/ LoadHeld \/ Return

KeeperSpec == KeeperInit /\ [][KeeperNext]_vars

(***************************************************************************)
(* The table form on its own: _key_order and _pandas_dict called with      *)
(* keys and notes of a caller.                                             *)
(***************************************************************************)
\* at most this many notes are passed to _pandas_dict
MaxRecords == 2

\* the keys passed to _key_order: fields of a note, flattened keys, and keys
\* of a caller's own
KeyNames ==
    {"alpha", "end_datetime", "features.numerical", "git.branch", "identifier", "info.k",
     "information", "metrics", "metrics.recall", "parameters.impute_missings", "target",
     "text", "zeta"}

\* the notes passed to _pandas_dict: as Note() and end() leave one, with a
\* metric, with a parameter, and with a mapping assigned to model
TableNotes ==
    LET closed(i) == SetItem(Note_init("", i, 0), "end_datetime", PyDatetime(0, 0))
    IN  {closed(1),
         SetItem(closed(1), "metrics", PyDict(<<"recall">>, <<PyFloat(2)>>)),
         SetItem(closed(2), "parameters", PyDict(<<"impute_missings">>, <<PyBool(TRUE)>>)),
         SetItem(closed(2), "model", PyDict(<<"k">>, <<PyStr("v")>>))}

\* Store(path) has returned
TableInit ==
    /\ file = _create_store_if_not_exists(NoFile)
    /\ last = NoCall
    /\ clock = 0
    /\ heap = <<>>
    /\ held = <<>>
    /\ env = "no repository"
    /\ writers = <<>>

\* _key_order(keys)
KeyOrder ==
    /\ last = NoCall
    /\ \E keys \in SUBSET KeyNames :
          last' = Called("_key_order", <<keys>>, "", <<_key_order(keys)>>, <<>>)
    /\ UNCHANGED <<file, clock, heap, held, env, writers>>

\* _pandas_dict(notes), with a list of at most MaxRecords notes
PandasDict ==
    /\ last = NoCall
    /\ \E notes \in UNION {[1 .. n -> TableNotes] : n \in 0 .. MaxRecords} :
          LET r == _pandas_dict(notes)
          IN  last' = Called("_pandas_dict", <<notes>>, r.exc, <<r.table>>, <<>>)
    /\ UNCHANGED <<file, clock, heap, held, env, writers>>

TableNext == KeyOrder \/ PandasDict \/ Return

TableSpec == TableInit /\ [][TableNext]_vars

(***************************************************************************)
(* The attributes of a Note: properties over the keys of the dict.         *)
(***************************************************************************)
\* the key each property reads and each setter writes: the class constants
\* _text_key, _model_key, ...
KeyOf ==
    [text |-> "text", model |-> "model", metrics |-> "metrics",
     parameters |-> "parameters", features |-> "features", target |-> "target",
     info |-> "info", start_datetime |-> "start_datetime",
     end_datetime |-> "end_datetime", python_path |-> "python_path", git |-> "git"]

\* note.attr
Note_getattr(h, note, attr) == GetItem(h[note.at], KeyOf[attr])

\* as Note_setattr, were the setters of text and target written with each
\* other's key
NoteSetattrSwapped(h, note, attr, value) ==
    SetField(h, note,
             IF attr = "text" THEN "target" ELSE IF attr = "target" THEN "text" ELSE KeyOf[attr],
             value)

\* note.attr = value
Note_setattr(h, note, attr, value) == SetField(h, note, KeyOf[attr], value)

\* what a caller assigns: a string, a datetime with microseconds, None, or the
\* object the note has under info (no setter looks at the type)
SetValues(note) ==
    {PyStr("v"), PyDatetime(MaxTime, 1), PyNone, GetItem(heap[note.at], "info")}

\* the fields of the note that are not as Note() gave them
FieldsSet(h, note) ==
    LET made == Note_init("", 1, 0)
    IN  {i \in DOMAIN made.keys : Value(h, h[note.at].vals[i]) # made.vals[i]}

\* Store(path) and note = Note() have returned
SetterInit ==
    /\ file = _create_store_if_not_exists(NoFile)
    /\ last = Constructed(NoFile)
    /\ clock = 0
    /\ LET made == Note_new(<<>>, "", PyNone, 1, 0, "no repository")
       IN  heap = made.heap /\ held = <<made.val>>
    /\ env = "no repository"
    /\ writers = <<>>

\* held[k].attr = value, and the attribute read after it
SetAttr ==
    /\ last = NoCall
    /\ \E k \in DOMAIN held, attr \in DOMAIN KeyOf :
          \E value \in SetValues(held[k]) :
              LET set == Note_setattr(heap, held[k], attr, value)
              IN  /\ Cardinality(FieldsSet(set, held[k])) <= MaxSet
                  /\ heap' = set
                  /\ last' = Called("setattr", <<HeldNotes[k], PyStr(attr), value, heap[held[k].at]>>,
                                    "", <<Note_getattr(set, held[k], attr)>>, <<k>>)
    /\ UNCHANGED <<file, clock, held, env, writers>>

SetterNext == SetAttr \/ Return

SetterSpec == SetterInit /\ [][SetterNext]_vars

(***************************************************************************)
(* The legacy package experimentstore: a JSONStore keeps the mapping       *)
(* `experiments` in memory beside the file.                                *)
(***************************************************************************)
\* a file holding the start of a JSON document, up to the value json.dump
\* could not encode
Truncated == [j |-> "truncated"]

\* the datetimes of the experiments: seconds of the clock, with microseconds
IsoDatetimes == {PyDatetime(sec, us) : sec \in 0 .. MaxTime, us \in 0 .. 1}

\* dt.isoformat(): the microseconds are written unless they are 0
isoformat(dt) ==
    LET digits == <<"0", "1", "2", "3", "4", "5", "6", "7", "8", "9">>
    IN  "1000-01-01T00:00:0" \o digits[dt.sec + 1]
            \o (IF dt.us = 0 THEN "" ELSE ".00000" \o digits[dt.us + 1])

\* datetime.fromisoformat(dt_str), for the strings isoformat gives
fromisoformat(dt_str) == CHOOSE dt \in IsoDatetimes : isoformat(dt) = dt_str

\* Experiment(description) at the time start, outside a git repository
Experiment_init(description, start) ==
    PyDict(<<"description", "metrics", "parameters", "features", "info", "start_datetime">>,
           <<PyStr(description), EmptyDict, EmptyDict, _initial_features_structure, EmptyDict,
             start>>)

\* experiment.identifier
Experiment_identifier(experiment) == isoformat(GetItem(experiment, "start_datetime"))

\* experiment.end()
Experiment_end(experiment, now) == SetItem(experiment, "end_datetime", now)

\* BaseStore._prepare_experiment_for_storing: the experiment after the call,
\* which is also the value of the copy returned
_prepare_experiment_for_storing(experiment, now) ==
    IF ~HasKey(experiment, "end_datetime") THEN Experiment_end(experiment, now) ELSE experiment

\* BaseStore._add_to_experiments: the mapping after the call
_add_to_experiments(experiments, experiment, now) ==
    LET prepared == _prepare_experiment_for_storing(experiment, now)
    IN  SetItem(experiments, Experiment_identifier(prepared), prepared)

RECURSIVE LegacyEncode(_)
\* json.dump with the DatetimeJSONEncoder of experimentstore: a datetime is
\* written as {"_isoformat": dt.isoformat()}
LegacyEncode(v) ==
    CASE v.t = "None" -> JNull
      [] v.t = "str" -> JString(v)
      [] v.t = "list" -> JArray([i \in DOMAIN v.items |-> LegacyEncode(v.items[i])])
      [] v.t = "dict" -> JObject(v.keys, [i \in DOMAIN v.vals |-> LegacyEncode(v.vals[i])])
      [] v.t = "datetime" -> JObject(<<"_isoformat">>, <<JString(PyStr(isoformat(v)))>>)

\* _deserialize_datetime of experimentstore
Legacy_deserialize_datetime(obj) ==
    LET _isoformat == DictGet(obj, "_isoformat")
    IN  IF _isoformat # PyNone THEN fromisoformat(_isoformat.s) ELSE obj

RECURSIVE LegacyDecode(_)
\* json.load(f, object_hook=_deserialize_datetime)
LegacyDecode(x) ==
    CASE x.j = "null" -> PyNone
      [] x.j = "string" -> x.p
      [] x.j = "array" -> PyList([i \in DOMAIN x.items |-> LegacyDecode(x.items[i])])
      [] x.j = "object" ->
            Legacy_deserialize_datetime(
                PyDict(x.keys, [i \in DOMAIN x.vals |-> LegacyDecode(x.vals[i])]))

\* JSONStore._json_load: [exc, content]
JSONStore_json_load(f) ==
    IF f = Truncated THEN [exc |-> "JSONDecodeError", content |-> PyNone]
    ELSE [exc |-> "", content |-> LegacyDecode(f)]

\* JSONStore._json_dump: [exc, file]. path.open("w") empties the file and
\* json.dump writes into it piece by piece, up to the value it cannot encode
JSONStore_json_dump(dict_obj) ==
    IF Serializable(dict_obj) THEN [exc |-> "", file |-> LegacyEncode(dict_obj)]
    ELSE [exc |-> "TypeError", file |-> Truncated]

\* JSONStore._save_experiments
_save_experiments(experiments) == JSONStore_json_dump(experiments)

\* JSONStore.load: [exc, file, experiments]
JSONStore_load(f, experiments) ==
    IF f = NoFile
    THEN [exc |-> _save_experiments(experiments).exc,
          file |-> _save_experiments(experiments).file, experiments |-> experiments]
    ELSE LET content == JSONStore_json_load(f)
         IN  IF content.exc # "" THEN [exc |-> content.exc, file |-> f, experiments |-> experiments]
             ELSE [exc |-> "", file |-> f, experiments |-> content.content]

\* JSONStore.add: [exc, file, experiments, experiment], the last being the
\* caller's experiment after the call
JSONStore_add(f, experiments, experiment, now) ==
    LET loaded == JSONStore_load(f, experiments)
    IN  IF loaded.exc # ""
        THEN [exc |-> loaded.exc, file |-> loaded.file, experiments |-> loaded.experiments,
              experiment |-> experiment]
        ELSE IF HasKey(loaded.experiments, Experiment_identifier(experiment))
        THEN [exc |-> "Exception", file |-> loaded.file, experiments |-> loaded.experiments,
              experiment |-> experiment]
        ELSE LET added == _add_to_experiments(loaded.experiments, experiment, now)
                 saved == _save_experiments(added)
             IN  [exc |-> saved.exc, file |-> saved.file, experiments |-> added,
                  experiment |-> _prepare_experiment_for_storing(experiment, now)]

\* the experiments a caller passes to add: made at a time up to now, open or
\* ended, info empty or holding an object json cannot encode
ExperimentInputs ==
    {IF k = PyNone THEN made ELSE SetItem(made, "info", PyDict(<<"k">>, <<k>>)) :
        made \in {Experiment_init("", start) : start \in {dt \in IsoDatetimes : dt.sec <= clock}}
                     \cup {Experiment_end(Experiment_init("", start), PyDatetime(clock, 1)) :
                             start \in {dt \in IsoDatetimes : dt.sec <= clock}},
        k \in {PyNone, PyObject}}

\* store = JSONStore(path) has returned, no file having been at the path; the
\* heap holds the store object with its attribute experiments
LegacyInit ==
    /\ file = JSONStore_load(NoFile, EmptyDict).file
    /\ last = NoCall
    /\ clock = 0
    /\ heap = <<[t |-> "JSONStore",
                 experiments |-> JSONStore_load(NoFile, EmptyDict).experiments]>>
    /\ held = <<>>
    /\ env = "no repository"
    /\ writers = <<>>

\* store.add(experiment)
LegacyAdd ==
    /\ last = NoCall
    /\ \E experiment \in ExperimentInputs :
          LET r == JSONStore_add(file, heap[1].experiments, experiment, PyDatetime(clock, 0))
          IN  /\ file' = r.file
              /\ heap' = <<[t |-> "JSONStore", experiments |-> r.experiments]>>
              /\ last' = Called("JSONStore.add", <<experiment>>, r.exc, <<r.experiment>>, <<>>)
    /\ UNCHANGED <<clock, held, env, writers>>

\* store.load()
LegacyLoad ==
    /\ last = NoCall
    /\ LET r == JSONStore_load(file, heap[1].experiments)
       IN  /\ file' = r.file
           /\ heap' = <<[t |-> "JSONStore", experiments |-> r.experiments]>>
           /\ last' = Called("JSONStore.load", <<>>, r.exc, <<>>, <<>>)
    /\ UNCHANGED <<clock, held, env, writers>>

LegacyNext == Tick \/ LegacyAdd \/ LegacyLoad \/ Return

LegacySpec == LegacyInit /\ [][LegacyNext]_vars

(***************************************************************************)
(* Several processes on one file, each with a Store of its own. A call of  *)
(* add, update or remove reads the file (the reload), works in memory up   *)
(* to json.dumps, opens the file for writing, which truncates it, and      *)
(* writes the string; other processes run between these accesses.          *)
(***************************************************************************)
NumWriters == 2

Writers == 1 .. NumWriters

\* the note of writer w, open until it is added, and as it passes it to update
WriterNote(w) == MadeNote(w, PyNone, PyNone)
WriterUpdate(w) == MadeNote(w, PyDatetime(MaxTime, 0), PyNone)

WriterArgs(w, op) == IF op = "update" THEN <<WriterUpdate(w)>> ELSE <<WriterNote(w)>>

\* the call op of writer w on a file read as f, up to the string to write:
\* [exc, file], file being the document json.dumps gives
CallOf(op, w, f, now) ==
    CASE op = "add" -> LET r == add(f, WriterNote(w), now) IN [exc |-> r.exc, file |-> r.file]
      [] op = "update" -> update(f, WriterArgs(w, op))
      [] op = "remove" -> remove(f, WriterArgs(w, op))

\* the length of what the file holds, in records
Size(f) == IF f.j = "array" THEN Len(f.items) ELSE IF f.j = "garbled" THEN f.records ELSE 0

\* f.write(json_str) and the close of a handle that stands at the start of the
\* file, the file holding current: what lies behind the string stays
f_write(current, text) ==
    IF Size(text) >= Size(current) THEN text ELSE Garbled(Size(current))

\* a writer outside a call; result tells how its last call ended
Idle(op, result) == [pc |-> "idle", op |-> op, pre |-> NoFile, text |-> NoFile, result |-> result]

\* what one Store would have made of the calls completed so far, held as long as
\* no two calls have overlapped
SingleAfter(op, w, overlapped) ==
    IF overlapped THEN NoFile ELSE CallOf(op, w, writers.single, clock).file

RaceInit ==
    /\ file = _create_store_if_not_exists(NoFile)
    /\ last = Constructed(NoFile)
    /\ clock = 0
    /\ heap = <<>>
    /\ held = <<>>
    /\ env = "no repository"
    /\ writers = [proc |-> [w \in Writers |-> Idle("none", "")],
                  single |-> _create_store_if_not_exists(NoFile),
                  overlapped |-> FALSE]

\* as RaceReload, were the records those the Store read when it was made
RaceReloadCached(w, op) ==
    /\ last = NoCall
    /\ writers.proc[w].pc = "idle"
    /\ LET r == CallOf(op, w, _create_store_if_not_exists(NoFile), clock)
           overlapped == writers.overlapped \/ \E v \in Writers : writers.proc[v].pc # "idle"
       IN  IF r.exc # ""
           THEN /\ writers' = [proc |-> [writers.proc EXCEPT ![w] = Idle(op, r.exc)],
                               single |-> SingleAfter(op, w, overlapped),
                               overlapped |-> overlapped]
                /\ last' = [op |-> op, pre |-> file, args |-> WriterArgs(w, op),
                            exc |-> r.exc, out |-> <<>>, by |-> w]
           ELSE /\ writers' = [writers EXCEPT
                                  !.proc[w] = [pc |-> "open", op |-> op, pre |-> file,
                                               text |-> r.file, result |-> ""],
                                  !.overlapped = overlapped]
                /\ last' = last
    /\ UNCHANGED <<file, clock, heap, held, env>>

\* writer w calls op: the reload and all that the call does in memory; where
\* that raises, the call is over
RaceReload(w, op) ==
    /\ last = NoCall
    /\ writers.proc[w].pc = "idle"
    /\ LET r == CallOf(op, w, file, clock)
           overlapped == writers.overlapped \/ \E v \in Writers : writers.proc[v].pc # "idle"
       IN  IF r.exc # ""
           THEN /\ writers' = [proc |-> [writers.proc EXCEPT ![w] = Idle(op, r.exc)],
                               single |-> SingleAfter(op, w, overlapped),
                               overlapped |-> overlapped]
                /\ last' = [op |-> op, pre |-> file, args |-> WriterArgs(w, op),
                            exc |-> r.exc, out |-> <<>>, by |-> w]
           ELSE /\ writers' = [writers EXCEPT
                                  !.proc[w] = [pc |-> "open", op |-> op, pre |-> file,
                                               text |-> r.file, result |-> ""],
                                  !.overlapped = overlapped]
                /\ last' = last
    /\ UNCHANGED <<file, clock, heap, held, env>>

\* as RaceOpen, were the call done again on the file as it is when it is opened
RaceOpenRedone(w) ==
    /\ last = NoCall
    /\ writers.proc[w].pc = "open"
    /\ file' = EmptyText
    /\ writers' = [writers EXCEPT
                      !.proc[w].pc = "write",
                      !.proc[w].text = LET r == CallOf(writers.proc[w].op, w, file, clock)
                                       IN  IF r.exc = "" THEN r.file ELSE @]
    /\ UNCHANGED <<last, clock, heap, held, env>>

\* path.open("w"): the file is empty from here on
RaceOpen(w) ==
    /\ last = NoCall
    /\ writers.proc[w].pc = "open"
    /\ file' = EmptyText
    /\ writers' = [writers EXCEPT !.proc[w].pc = "write"]
    /\ UNCHANGED <<last, clock, heap, held, env>>

\* f.write(json_str) and the end of the with block: the call returns
RaceWrite(w) ==
    /\ last = NoCall
    /\ writers.proc[w].pc = "write"
    /\ file' = f_write(file, writers.proc[w].text)
    /\ writers' = [proc |-> [writers.proc EXCEPT ![w] = Idle(@.op, "returned")],
                   single |-> SingleAfter(writers.proc[w].op, w, writers.overlapped),
                   overlapped |-> writers.overlapped]
    /\ last' = [op |-> writers.proc[w].op, pre |-> writers.proc[w].pre,
                args |-> WriterArgs(w, writers.proc[w].op), exc |-> "", out |-> <<>>,
                by |-> w]
    /\ UNCHANGED <<clock, heap, held, env>>

\* store.load() in a process that only reads
Observe ==
    /\ last = NoCall
    /\ LET r == load(file)
       IN  last' = [op |-> "load", pre |-> file, args |-> <<>>, exc |-> r.exc,
                    out |-> r.notes, by |-> 0]
    /\ UNCHANGED <<file, clock, heap, held, env, writers>>

RaceNext ==
    \/ \E w \in Writers, op \in {"add", "update", "remove"} : RaceReload(w, op)
    \/ \E w \in Writers : RaceOpen(w)
    \/ \E w \in Writers : RaceWrite(w)
    \/ Observe
    \/ Return

RaceSpec == RaceInit /\ [][RaceNext]_vars

(***************************************************************************)
(* Timestamps on their way to the file and back: a datetime, set by        *)
(* _current_datetime or made by the caller, is formatted and parsed, and   *)
(* is encoded and decoded as a value of a note.                            *)
(***************************************************************************)
\* the datetimes a caller can make: any second, with microseconds or without
Stamps == {PyDatetime(sec, us) : sec \in -MaxStamp .. MaxStamp, us \in 0 .. 1}

Stamped(op, dt, auto, exc, out) ==
    [op |-> op, pre |-> file, args |-> <<dt>>, exc |-> exc, out |-> out, auto |-> auto]

StampInit ==
    /\ file = _create_store_if_not_exists(NoFile)
    /\ last = Constructed(NoFile)
    /\ clock = 0
    /\ heap = <<>>
    /\ held = <<>>
    /\ env = "no repository"
    /\ writers = <<>>

\* _format_datetime(dt) for the current datetime or one of the caller
Format ==
    /\ last = NoCall
    /\ \/ last' = Stamped("format", _current_datetime(clock), TRUE, "",
                          <<_format_datetime(_current_datetime(clock))>>)
       \/ \E dt \in Stamps : last' = Stamped("format", dt, FALSE, "", <<_format_datetime(dt)>>)
    /\ UNCHANGED <<file, clock, heap, held, env, writers>>

\* _parse_datetime of the string just formatted: strptime raises ValueError
\* for a string that is not of the format
Parse ==
    /\ last.op = "format"
    /\ LET dt_str == last.out[1]
       IN  last' = IF IsStrftime(dt_str)
                   THEN Stamped("parse", last.args[1], last.auto, "", <<_parse_datetime(dt_str)>>)
                   ELSE Stamped("parse", last.args[1], last.auto, "ValueError", <<>>)
    /\ UNCHANGED <<file, clock, heap, held, env, writers>>

\* json.dumps of the current datetime or one of the caller, as the encoder
\* writes it into the file
Dumps ==
    /\ last = NoCall
    /\ \/ last' = Stamped("dumps", _current_datetime(clock), TRUE, "",
                          <<Encode(_current_datetime(clock))>>)
       \/ \E dt \in Stamps : last' = Stamped("dumps", dt, FALSE, "", <<Encode(dt)>>)
    /\ UNCHANGED <<file, clock, heap, held, env, writers>>

\* json.load, with the hook, of what was just written
Loads ==
    /\ last.op = "dumps"
    /\ LET x == last.out[1]
       IN  last' = IF HookRaises(x)
                   THEN Stamped("loads", last.args[1], last.auto, "ValueError", <<>>)
                   ELSE Stamped("loads", last.args[1], last.auto, "", <<Decode(x)>>)
    /\ UNCHANGED <<file, clock, heap, held, env, writers>>

StampNext == Tick \/ Format \/ Parse \/ Dumps \/ Loads \/ Return

StampSpec == StampInit /\ [][StampNext]_vars

(***************************************************************************)
(* Vocabulary of the properties.                                           *)
(***************************************************************************)
Identifier(note) == GetItem(note, "identifier")

IsClosed(note) == GetItem(note, "end_datetime") # PyNone

\* the identifiers of the records in the file, read off the JSON text
StoredIdentifiers(f) ==
    IF f.j # "array" THEN {}
    ELSE {f.items[i].vals[CHOOSE k \in DOMAIN f.items[i].keys :
                              f.items[i].keys[k] = "identifier"].p : i \in DOMAIN f.items}

ArgIdentifiers == {Identifier(last.args[i]) : i \in DOMAIN last.args}

\* the call returned without raising
Succeeded == last.exc = ""

\* C1: no two records in the backing file have the same identifier.
C1_UniqueIdentifiers ==
    Cardinality(StoredIdentifiers(file)) = NumRecords(file)

\* C2: add of a record whose identifier is already in the file raises (the
\* duplicate-identifier Exception whenever the file could be loaded) and leaves
\* the file, hence the number of stored records, as it was.
C2_DuplicateAddRejected ==
    (last.op = "add" /\ Identifier(last.args[1]) \in StoredIdentifiers(last.pre))
        => /\ ~Succeeded
           /\ load(last.pre).exc = "" => last.exc = "Exception"
           /\ file = last.pre
           /\ NumRecords(file) = NumRecords(last.pre)

\* C2 is met: an add was rejected for its identifier, the note itself differing
\* from the stored one
C2_Witness ==
    /\ last.op = "add"
    /\ last.exc = "Exception"
    /\ Identifier(last.args[1]) \in StoredIdentifiers(last.pre)
    /\ last.args[1] \notin Range(load(last.pre).notes)

\* how often x occurs in the sequence s
Count(s, x) == Cardinality({i \in DOMAIN s : s[i] = x})

\* the sequences a and b hold the same elements, each as often
SameRecords(a, b) ==
    /\ Len(a) = Len(b)
    /\ \A x \in Range(a) \cup Range(b) : Count(a, x) = Count(b, x)

\* the timestamps of the note are full seconds, as _current_datetime makes them
SecondPrecision(note) ==
    /\ GetItem(note, "start_datetime").us = 0
    /\ IsClosed(note) => GetItem(note, "end_datetime").us = 0

\* C3: add of a serializable record (timestamps of second precision) whose
\* identifier is not stored succeeds; a following load returns the records
\* stored before, unchanged, plus one record equal to the caller's, and the
\* count of stored records has grown by one.
C3_AddThenLoad ==
    (/\ last.op = "add"
     /\ Identifier(last.args[1]) \notin StoredIdentifiers(last.pre)
     /\ Serializable(last.args[1])
     /\ SecondPrecision(last.args[1]))
        => /\ Succeeded
           /\ NumRecords(file) = NumRecords(last.pre) + 1
           /\ load(file).exc = ""
           /\ SameRecords(load(file).notes, load(last.pre).notes \o last.out)

\* C4: update with a batch holding an identifier that is not stored raises (the
\* AssertionError whenever the file could be loaded) and leaves the file as it
\* was, whatever else the batch holds.
C4_UpdateUnknownRejected ==
    (last.op = "update" /\ ~(ArgIdentifiers \subseteq StoredIdentifiers(last.pre)))
        => /\ ~Succeeded
           /\ load(last.pre).exc = "" => last.exc = "AssertionError"
           /\ file = last.pre

\* C4 is met: an update was rejected whose batch held a stored and an unknown
\* identifier
C4_Witness ==
    /\ last.op = "update"
    /\ last.exc = "AssertionError"
    /\ file = last.pre
    /\ ArgIdentifiers \cap StoredIdentifiers(last.pre) # {}
    /\ ArgIdentifiers \ StoredIdentifiers(last.pre) # {}

\* the records of the JSON array f whose identifier is (keep) or is not (~keep)
\* one of ids
RecordsOf(f, ids, keep) ==
    SelectSeq(f.items, LAMBDA r : (StoredIdentifiers(JArray(<<r>>)) \subseteq ids) = keep)

\* C5: an update that returns, every identifier of the batch being stored, has
\* put the passed records in the place of the stored records of those
\* identifiers, left every other record as it was, and left the number of
\* stored records as it was.
C5_UpdateReplacesByIdentifier ==
    (last.op = "update" /\ Succeeded /\ ArgIdentifiers \subseteq StoredIdentifiers(last.pre))
        => /\ NumRecords(file) = NumRecords(last.pre)
           /\ SameRecords(RecordsOf(file, ArgIdentifiers, TRUE),
                          [i \in DOMAIN last.args |-> Encode(last.args[i])])
           /\ SameRecords(RecordsOf(file, ArgIdentifiers, FALSE),
                          RecordsOf(last.pre, ArgIdentifiers, FALSE))

\* C6: remove with a batch holding an identifier that is not stored raises and
\* removes nothing: the file is as it was.
C6_RemoveUnknownRejected ==
    (last.op = "remove" /\ ~(ArgIdentifiers \subseteq StoredIdentifiers(last.pre)))
        => /\ ~Succeeded
           /\ load(last.pre).exc = "" => last.exc = "AssertionError"
           /\ file = last.pre

\* C6 is met: a remove was rejected whose batch held a stored and an unknown
\* identifier
C6_Witness ==
    /\ last.op = "remove"
    /\ last.exc = "AssertionError"
    /\ NumRecords(file) = NumRecords(last.pre)
    /\ ArgIdentifiers \cap StoredIdentifiers(last.pre) # {}
    /\ ArgIdentifiers \ StoredIdentifiers(last.pre) # {}

\* C7: after a remove that returns, load gives no record with an identifier of
\* the batch, and gives every other record loaded before, each as it was.
C7_RemoveKeepsTheOthers ==
    (last.op = "remove" /\ Succeeded)
        => /\ load(file).exc = ""
           /\ \A i \in DOMAIN load(file).notes :
                  Identifier(load(file).notes[i]) \notin ArgIdentifiers
           /\ load(file).notes
                  = SelectSeq(load(last.pre).notes,
                              LAMBDA n : Identifier(n) \notin ArgIdentifiers)

\* C7 is met: a remove returned and left records behind
C7_Witness ==
    /\ last.op = "remove"
    /\ Succeeded
    /\ NumRecords(file) >= 1
    /\ NumRecords(file) < NumRecords(last.pre)

\* a may stand right before b in load's order: end_datetime descending, equal
\* end_datetimes by identifier descending
InLoadOrder(a, b) ==
    LET ea == GetItem(a, "end_datetime")
        eb == GetItem(b, "end_datetime")
    IN  IF ea = eb THEN Identifier(a).uuid4 >= Identifier(b).uuid4
        ELSE /\ ea # PyNone
             /\ eb # PyNone
             /\ eb.sec < ea.sec \/ (eb.sec = ea.sec /\ eb.us < ea.us)

\* what load gives after a, closed at na if open, and then b, closed at nb if
\* open, were added to the file f: [ok, loaded]
LoadAfterAdds(f, a, na, b, nb) ==
    LET first == add(f, a, na)
        second == add(first.file, b, nb)
    IN  [ok |-> first.exc = "" /\ second.exc = "", loaded |-> load(second.file)]

\* C8: load returns the stored records, sorted by end_datetime descending and,
\* where end_datetimes are equal, by identifier descending; a second load of the
\* unchanged file returns the same sequence; and what load returns after two
\* more records were added is the same whichever of the two was added first.
C8_LoadOrder ==
    (last.op = "load" /\ Succeeded)
        => /\ SameRecords(last.out, Decode(file).items)
           /\ \A i \in 1 .. Len(last.out) - 1 : InLoadOrder(last.out[i], last.out[i + 1])
           /\ load(file) = [exc |-> "", notes |-> last.out]
           /\ \A a, b \in NoteInputs : \A na, nb \in Times :
                  LET ab == LoadAfterAdds(file, a, na, b, nb)
                      ba == LoadAfterAdds(file, b, nb, a, na)
                  IN  (ab.ok /\ ba.ok) => ab.loaded = ba.loaded

\* C8 is met: load returned two records of different identifiers with equal
\* end_datetime
C8_Witness ==
    /\ last.op = "load"
    /\ Succeeded
    /\ Len(last.out) >= 2
    /\ GetItem(last.out[1], "end_datetime") = GetItem(last.out[2], "end_datetime")
    /\ Identifier(last.out[1]) # Identifier(last.out[2])

\* C9: add or update given a record holding a value json cannot serialize
\* raises, and the file is what it was: not truncated, the same records in it,
\* and loading it gives what it gave before.
C9_UnserializableLeavesFile ==
    (/\ last.op \in {"add", "update"}
     /\ \E i \in DOMAIN last.args : ~Serializable(last.args[i]))
        => /\ ~Succeeded
           /\ file # EmptyText
           /\ file = last.pre
           /\ load(file) = load(last.pre)

\* C9 is met: an update of two stored, closed records, one of them not
\* serializable, on a file that loads: what raises is json.dumps
C9_Witness ==
    /\ last.op = "update"
    /\ last.exc = "TypeError"
    /\ Len(last.args) = 2
    /\ Serializable(last.args[1]) # Serializable(last.args[2])
    /\ \A i \in DOMAIN last.args : IsClosed(last.args[i])
    /\ ArgIdentifiers \subseteq StoredIdentifiers(last.pre)
    /\ load(file).exc = ""
    /\ \A i \in DOMAIN load(file).notes : IsClosed(load(file).notes[i])
    /\ NumRecords(file) = 2

\* C10: a closed record (timestamps of second precision) that was added comes
\* back from load equal to the original: the same keys, in the same order, with
\* the same values.
C10_RoundTrip ==
    (/\ last.op = "add"
     /\ Succeeded
     /\ IsClosed(last.args[1])
     /\ SecondPrecision(last.args[1]))
        => /\ load(file).exc = ""
           /\ \E i \in DOMAIN load(file).notes :
                  /\ load(file).notes[i].keys = last.args[1].keys
                  /\ load(file).notes[i].vals = last.args[1].vals

RECURSIVE IsJSON(_)
\* v is a JSON value as Python holds it: None, a string, a list or a mapping
\* with string keys of such values
IsJSON(v) ==
    CASE v.t = "list" -> \A i \in DOMAIN v.items : IsJSON(v.items[i])
      [] v.t = "dict" -> \A i \in DOMAIN v.vals : IsJSON(v.vals[i])
      [] v.t \in {"None", "str"} -> TRUE
      [] OTHER -> FALSE

PassThroughFields == {"parameters", "metrics", "info"}

\* C11: after an add that returned, of a record whose parameters, metrics and
\* info hold JSON values only (a mapping with the key "_datetime" included), the
\* file loads and the record of that identifier has these three values as they
\* were stored.
C11_JsonValuesPassThrough ==
    (/\ last.op = "add"
     /\ Succeeded
     /\ \A k \in PassThroughFields : IsJSON(GetItem(last.args[1], k)))
        => /\ load(file).exc = ""
           /\ \E i \in DOMAIN load(file).notes :
                  /\ Identifier(load(file).notes[i]) = Identifier(last.args[1])
                  /\ \A k \in PassThroughFields :
                         GetItem(load(file).notes[i], k) = GetItem(last.args[1], k)

StartOf(note) == GetItem(note, "start_datetime")

EndOf(note) == GetItem(note, "end_datetime")

\* start_datetime <= end_datetime, both being set
StartNotAfterEnd(note) == ~DatetimeLT(EndOf(note), StartOf(note))

\* C12: every note the caller holds, made by Note() or Note.from_note and closed
\* by end() or by add, and every record in the file, has
\* start_datetime <= end_datetime once both are set.
C12_StartNotAfterEnd ==
    /\ \A k \in DOMAIN held :
           (StartOf(HeldNotes[k]) # PyNone /\ IsClosed(HeldNotes[k]))
               => StartNotAfterEnd(HeldNotes[k])
    /\ load(file).exc = ""
           => \A i \in DOMAIN load(file).notes :
                  IsClosed(load(file).notes[i]) => StartNotAfterEnd(load(file).notes[i])

WellKnownFields ==
    {"text", "model", "parameters", "features", "target", "metrics", "info",
     "start_datetime", "end_datetime", "identifier", "python_path", "git"}

\* C13: the note Note() returns has the twelve well-known fields, a datetime as
\* start_datetime and None as end_datetime; after end() the note has an
\* end_datetime, and it is not before its start_datetime.
C13_FreshNote ==
    /\ (last.op = "Note" /\ Succeeded)
           => /\ Range(last.out[1].keys) = WellKnownFields
              /\ Len(last.out[1].keys) = 12
              /\ StartOf(last.out[1]).t = "datetime"
              /\ EndOf(last.out[1]) = PyNone
              /\ HeldNotes[last.at[1]] = last.out[1]
    /\ last.op = "end"
           => /\ EndOf(HeldNotes[last.at[1]]).t = "datetime"
              /\ StartNotAfterEnd(HeldNotes[last.at[1]])

\* C13 is met: end() was called on an open note a second after it was started
C13_Witness ==
    /\ last.op = "end"
    /\ ~IsClosed(last.args[1])
    /\ StartOf(last.args[1]).sec < EndOf(HeldNotes[last.at[1]]).sec

RECURSIVE Reach(_, _)
\* the objects one gets to from r
Reach(h, r) ==
    IF r.t # "ref" THEN {}
    ELSE {r.at} \cup UNION {Reach(h, Children(h[r.at])[i]) : i \in DOMAIN Children(h[r.at])}

\* C14: the note Note.from_note(source) returns has another identifier than
\* source, a start_datetime not before that of source, and under every other
\* key the value source has; source is as it was before the call; the two share
\* no object, so that appending to features.numerical of the derived note
\* changes that note and leaves source, like every other note, as it was.
C14_FromNoteDeepCopy ==
    /\ last.op = "from_note"
           => LET source == HeldNotes[last.at[1]]
                  derived == HeldNotes[last.at[2]]
                  appended == features_numerical_append(heap, held[last.at[2]], PyStr("y"))
              IN  /\ Identifier(derived) # Identifier(source)
                  /\ ~DatetimeLT(StartOf(derived), StartOf(source))
                  /\ derived.keys = source.keys
                  /\ \A key \in WellKnownFields \ {"identifier", "start_datetime"} :
                         GetItem(derived, key) = GetItem(source, key)
                  /\ derived = last.out[1]
                  /\ source = last.args[1]
                  /\ \A k \in DOMAIN last.before : HeldNotes[k] = last.before[k]
                  /\ Reach(heap, held[last.at[1]]) \cap Reach(heap, held[last.at[2]]) = {}
                  /\ Value(appended, held[last.at[1]]) = source
                  /\ Value(appended, held[last.at[2]]) # derived
    /\ last.op = "append"
           => /\ HeldNotes[last.at[1]] # last.before[last.at[1]]
              /\ \A k \in DOMAIN held : k # last.at[1] => HeldNotes[k] = last.before[k]

\* C14 is met: a note was derived, a second after its start, from a closed note
\* with a feature in features.numerical
C14_Witness ==
    /\ last.op = "from_note"
    /\ IsClosed(last.args[1])
    /\ Len(GetItem(GetItem(last.args[1], "features"), "numerical").items) > 0
    /\ StartOf(last.args[1]).sec < StartOf(last.out[1]).sec

\* C15: after an add that returned, the caller's note is closed: a note that
\* was open differs from what it was in its end_datetime alone, a note that was
\* closed is what it was; and the file holds the caller's note as it now is.
C15_AddCloses ==
    (last.op = "add" /\ Succeeded)
        => /\ IsClosed(last.out[1])
           /\ IsClosed(last.args[1]) => last.out[1] = last.args[1]
           /\ ~IsClosed(last.args[1])
                  => /\ EndOf(last.out[1]).t = "datetime"
                     /\ last.out[1].keys = last.args[1].keys
                     /\ \A key \in WellKnownFields \ {"end_datetime"} :
                            GetItem(last.out[1], key) = GetItem(last.args[1], key)
           /\ Count(file.items, Encode(last.out[1])) = 1

\* C15 is met: an open note was added to a store holding a record
C15_Witness ==
    /\ last.op = "add"
    /\ Succeeded
    /\ ~IsClosed(last.args[1])
    /\ NumRecords(last.pre) >= 1

\* the value the JSON object r has under key
JsonField(r, key) == r.vals[CHOOSE k \in DOMAIN r.keys : r.keys[k] = key]

\* C16: every record in the backing file has an end_datetime that is not null.
C16_NoOpenRecordStored ==
    \A i \in 1 .. NumRecords(file) : JsonField(file.items[i], "end_datetime") # JNull

\* the notes the call hands to _sort_notes before it writes, where it gets that
\* far: the reloaded notes with the prepared note appended, with the batch in
\* the place of the stored notes of its identifiers, or without those
WrittenByCall ==
    LET stored_notes == load(last.pre)
    IN  IF stored_notes.exc # "" THEN <<>>
        ELSE CASE last.op = "add" /\ Identifier(last.args[1]) \notin StoredIdentifiers(last.pre)
                      -> Append(stored_notes.notes, last.out[1])
               [] last.op = "update" /\ ArgIdentifiers \subseteq StoredIdentifiers(last.pre)
                      -> _filter_notes(last.args, stored_notes.notes) \o last.args
               [] last.op = "remove" /\ ArgIdentifiers \subseteq StoredIdentifiers(last.pre)
                      -> _filter_notes(last.args, stored_notes.notes)
               [] OTHER -> <<>>

\* C17: the sort of load and the sort before every write order records without
\* end_datetime as well: no sort raises for comparing None with a datetime, and
\* in what load returns the open records come first.
C17_OpenRecordsOrdered ==
    /\ _json_load(file).exc = "" => ~SortRaises(_raw_dicts_to_notes(_json_load(file).content))
    /\ last.op \in {"add", "update", "remove"} => ~SortRaises(WrittenByCall)
    /\ (last.op = "load" /\ Succeeded)
           => \A i, k \in DOMAIN last.out :
                  (i < k /\ ~IsClosed(last.out[k])) => ~IsClosed(last.out[i])

\* C18: Store(path) on a path without a file leaves a file holding the empty
\* array, from which load returns no note; Store(path) on a path with a file
\* leaves the file as it is, every time.
C18_ConstructKeepsFile ==
    last.op = "Store"
        => IF last.pre = NoFile
           THEN file = JArray(<<>>) /\ load(file) = [exc |-> "", notes |-> <<>>]
           ELSE file = last.pre

\* C18 is met: a Store was constructed on a file holding records
C18_Witness ==
    /\ last.op = "Store"
    /\ NumRecords(last.pre) >= 1

\* C19: load, returning the list or the table, leaves the file as it is.
C19_LoadKeepsFile ==
    last.op \in {"load", "load_dataframe"} => file = last.pre

\* C19 is met: load returned the table of a file holding records
C19_Witness ==
    /\ last.op = "load_dataframe"
    /\ Succeeded
    /\ NumRecords(file) >= 1

\* C20: the array in the file is in load order: sorting what the file holds
\* leaves its order as it is.
C20_FileInLoadOrder ==
    load(file).exc = "" => load(file).notes = _raw_dicts_to_notes(_json_load(file).content)

\* C21: Note(content=c) returns whatever the git commands would find where it is
\* called (none is run), and the note it returns is a new dict holding exactly
\* the keys of c, in the order c has them, each with the very value c holds:
\* no key is added and no value is set anew.
C21_ContentTakenAsIs ==
    last.op = "Note_content"
        => /\ Succeeded
           /\ last.out[1] = last.args[1]
           /\ last.out[1].keys = last.args[1].keys
           /\ last.out[2] = last.out[3]
           /\ last.out[4] # last.out[5]

\* C21 is met: Note(content=c) was called where there is no git executable,
\* with a dict that has some of the well-known keys, git first
C21_Witness ==
    /\ last.op = "Note_content"
    /\ env = "no git"
    /\ last.args[1].keys = <<"git", "identifier", "text">>
    /\ last.out[1].keys = <<"git", "identifier", "text">>

\* C22: end() sets end_datetime to what the clock reads at the call, in full
\* seconds, whatever it was: on a note that is closed already the new value
\* replaces the old one, is not before it, and differs from it whenever the
\* clock has gone on by a second or more since.
C22_EndOverwrites ==
    last.op = "end"
        => LET before == last.args[1]
               after == HeldNotes[last.at[1]]
           IN  /\ EndOf(after) = PyDatetime(clock, 0)
               /\ IsClosed(before)
                      => /\ ~DatetimeLT(EndOf(after), EndOf(before))
                         /\ EndOf(before).sec < clock => EndOf(after) # EndOf(before)

\* C22 is met: end() was called on a note closed a second before
C22_Witness ==
    /\ last.op = "end"
    /\ IsClosed(last.args[1])
    /\ EndOf(last.args[1]).sec < clock
    /\ EndOf(HeldNotes[last.at[1]]).sec = clock

\* C23: an add that has returned leaves in the file the records its reload
\* read and its own record, whatever other writers wrote between its reload
\* and its write: a record another writer added in between is no longer in the
\* file, though that add returned as well.
C23_AddWritesWhatItReloaded ==
    (last.op = "add" /\ Succeeded /\ file.j = "array")
        => /\ StoredIdentifiers(file) = StoredIdentifiers(last.pre) \cup ArgIdentifiers
           /\ \A v \in Writers :
                  PyUuid(v) \notin StoredIdentifiers(last.pre) \cup ArgIdentifiers
                      => PyUuid(v) \notin StoredIdentifiers(file)

\* C23 is met: the adds of both writers have returned, and the file holds one
\* record, that of the writer whose add returned last
C23_Witness ==
    /\ last.op = "add"
    /\ Succeeded
    /\ \A w \in Writers : writers.proc[w] = Idle("add", "returned")
    /\ NumRecords(file) = 1
    /\ StoredIdentifiers(file) = ArgIdentifiers

\* C24: as long as no call has begun while another was under way, every call
\* of a writer that has returned has left what the call makes of the file as
\* it was when the call began, and the file, whenever no call is under way, is
\* what one Store would have made of the same calls in the same order.
C24_SequentialAsOneStore ==
    ~writers.overlapped
        => /\ (\A w \in Writers : writers.proc[w].pc = "idle") => file = writers.single
           /\ (last.op \in {"add", "update", "remove"} /\ Succeeded)
                  => file = CallOf(last.op, last.by, last.pre, clock).file

\* C24 is met: no two calls have overlapped, the update of one writer and
\* then the add of the other have returned, and the file holds both records
C24_Witness ==
    /\ ~writers.overlapped
    /\ writers.proc[1] = Idle("update", "returned")
    /\ writers.proc[2] = Idle("add", "returned")
    /\ last.op = "add"
    /\ NumRecords(file) = 2
    /\ file = writers.single

\* C25: whenever a process calls load, while a write of another process is
\* under way or not, the file it reads is a complete document (the content
\* from before the write or the content after it): never an empty file and
\* never part of a document.
C25_LoadSeesWholeContent ==
    last.op = "load" => (last.pre.j = "array" /\ last.exc # "JSONDecodeError")

\* C26: a datetime set by _current_datetime has no microseconds; for every
\* datetime t without microseconds _parse_datetime(_format_datetime(t)) returns
\* t; and a datetime set by _current_datetime is decoded from the file as the
\* datetime that was encoded.
C26_SecondPrecisionRoundTrip ==
    /\ (last.op \in {"format", "parse", "dumps", "loads"} /\ last.auto)
           => last.args[1].us = 0
    /\ (last.op = "parse" /\ last.args[1].us = 0)
           => (Succeeded /\ last.out[1] = last.args[1])
    /\ (last.op = "loads" /\ last.auto)
           => (Succeeded /\ last.out[1] = last.args[1])

\* a JSON string of the form YYYY-MM-DDTHH-MM-SS
IsTimestampString(x) == x.j = "string" /\ IsStrftime(x.p)

\* C27: every element of the array in the file is an object with exactly the
\* twelve fields of a record, and in it the values of start_datetime and
\* end_datetime are JSON strings of the form YYYY-MM-DDTHH-MM-SS.
C27_TimestampsStoredAsStrings ==
    \A i \in 1 .. NumRecords(file) :
        /\ file.items[i].j = "object"
        /\ Len(file.items[i].keys) = 12
        /\ Range(file.items[i].keys) = WellKnownFields
        /\ IsTimestampString(JsonField(file.items[i], "start_datetime"))
        /\ IsTimestampString(JsonField(file.items[i], "end_datetime"))

\* C28: Note() returns a note whatever the git commands find where it is
\* called, and the git mapping of that note is empty or has the three keys
\* repo_name, branch and commit.
C28_FreshNoteNeverRaises ==
    last.op = "Note"
        => /\ Succeeded
           /\ Range(GetItem(last.out[1], "git").keys) \in {{}, {"repo_name", "branch", "commit"}}

FixedFields == {"identifier", "start_datetime", "python_path"}

SameFixed(a, b) == \A key \in FixedFields : GetItem(a, key) = GetItem(b, key)

\* the notes load gives for the file f that have the identifier of note
StoredAs(f, note) == SelectSeq(load(f).notes, LAMBDA n : Identifier(n) = Identifier(note))

\* C29: end(), add, update and a change of another field leave identifier,
\* start_datetime and python_path of the caller's note as they were; after an
\* add or update that returned, load gives one record of that identifier, with
\* these three values, and an update leaves them in the stored record as they
\* were stored; so every note load gives has them as the caller's note of
\* that identifier has them, however often it was updated.
C29_FixedAtCreation ==
    /\ last.op \in {"end", "add", "append", "update"}
           => SameFixed(HeldNotes[last.at[1]], last.args[1])
    /\ (last.op \in {"add", "update"} /\ Succeeded)
           => /\ load(file).exc = ""
              /\ Len(StoredAs(file, last.args[1])) = 1
              /\ SameFixed(StoredAs(file, last.args[1])[1], last.args[1])
              /\ last.op = "update"
                     => SameFixed(StoredAs(file, last.args[1])[1],
                                  StoredAs(last.pre, last.args[1])[1])
    /\ \A k, m \in DOMAIN held :
           Identifier(HeldNotes[k]) = Identifier(HeldNotes[m])
               => SameFixed(HeldNotes[k], HeldNotes[m])
    /\ \A k \in DOMAIN held :
           \A i \in DOMAIN StoredAs(file, HeldNotes[k]) :
               SameFixed(StoredAs(file, HeldNotes[k])[i], HeldNotes[k])

\* C29 is met: a note made at second 1 was added and loaded, the loaded note
\* was changed in another field, and the update with it returned
C29_Witness ==
    /\ last.op = "update"
    /\ Succeeded
    /\ StartOf(last.args[1]).sec = 1
    /\ \E k \in DOMAIN held : k < last.at[1] /\ Identifier(HeldNotes[k]) = Identifier(last.args[1])
    /\ StoredAs(last.pre, last.args[1])[1] # last.args[1]
    /\ StoredAs(file, last.args[1])[1] = last.args[1]

\* C30: a change the caller makes to a note it holds (an append to
\* features.numerical, end()), whether the note was passed to add or update
\* before or was returned by load, leaves the file, and so what load gives, as
\* it was, and leaves every other note of the caller as it was; the notes load
\* returns share no object with a note the caller holds already; and after an
\* add or update that returned the file holds the note as it is at that call.
C30_StoreDoesNotAlias ==
    /\ last.op \in {"append", "end"}
           => /\ file = last.pre
              /\ load(file) = load(last.pre)
              /\ \A k \in DOMAIN held : k # last.at[1] => HeldNotes[k] = last.before[k]
    /\ last.op = "load"
           => /\ \A k \in DOMAIN last.before :
                     /\ HeldNotes[k] = last.before[k]
                     /\ Reach(heap, held[k]) \cap Reach(heap, held[last.at[1]]) = {}
              /\ HeldNotes[last.at[1]] \in Range(last.out)
              /\ file = last.pre
    /\ (last.op \in {"add", "update"} /\ Succeeded)
           => Count(file.items, Encode(HeldNotes[last.at[1]])) = 1
    /\ \A k, m \in DOMAIN held :
           k # m => Reach(heap, held[k]) \cap Reach(heap, held[m]) = {}

\* C30 is met: the caller appended to features.numerical of a note that load
\* returned for a stored note it also holds; the file holds the record without
\* the feature
C30_Witness ==
    /\ last.op = "append"
    /\ \E k \in DOMAIN held : k < last.at[1] /\ Identifier(HeldNotes[k]) = Identifier(last.args[1])
    /\ Count(file.items, Encode(last.args[1])) = 1
    /\ Count(file.items, Encode(HeldNotes[last.at[1]])) = 0
    /\ file = last.pre

\* C31: add closes the note before it checks the identifier: after every add
\* whose reload succeeded, rejected for its identifier or not, the caller's
\* note has an end_datetime.
C31_ClosedBeforeCheck ==
    (last.op = "add" /\ load(last.pre).exc = "")
        => IsClosed(last.out[1])

\* C32: the file always loads, and every add of a serializable note whose
\* identifier is not stored returns.
C32_AddAlwaysSucceeds ==
    /\ load(file).exc = ""
    /\ (/\ last.op = "add"
        /\ Serializable(last.args[1])
        /\ Identifier(last.args[1]) \notin StoredIdentifiers(last.pre))
           => Succeeded

\* C33: for every closed, serializable note n whose identifier is not stored
\* and whose add returns, add(n) followed by remove([n]) returns and leaves the
\* file with the content and the order it had before the add.
C33_AddThenRemoveRestores ==
    \A n \in NoteInputs \cup {MadeNote(NumIds + 1, PyDatetime(0, 0), PyNone)} :
        (/\ IsClosed(n)
         /\ Serializable(n)
         /\ Identifier(n) \notin StoredIdentifiers(file)
         /\ add(file, n, 0).exc = "")
            => LET removed == remove(add(file, n, 0).file, <<n>>)
               IN  removed.exc = "" /\ removed.file = file

\* the nonempty batches made of notes of the sequence s, each at most once, in
\* the order of s
SubBatches(s) ==
    {SelectSeq([i \in DOMAIN s |-> [at |-> i, note |-> s[i]]], LAMBDA x : x.at \in picked) :
        picked \in SUBSET DOMAIN s \ {{}}}

\* C34: an update with notes load has just returned, all or some of them,
\* unchanged, returns and leaves what load gives, content and order, as it was;
\* and after an update that returned, the same update once more leaves the file
\* as it is.
C34_UpdateNoOpIdempotent ==
    /\ load(file).exc = ""
           => \A picked \in SubBatches(load(file).notes) :
                  LET batch == [i \in DOMAIN picked |-> picked[i].note]
                      again == update(file, batch)
                  IN  again.exc = "" /\ load(again.file) = load(file)
    /\ (last.op = "update" /\ Succeeded) => update(file, last.args).file = file

\* C35: after note.attr = value, for each of the eleven named attributes,
\* note.attr is that value (the very object where it is one), the value is
\* under the key of that name in the dict, and under every other key, the
\* identifier among them, the dict holds what it held, the keys being as
\* they were.
C35_SetThenGet ==
    last.op = "setattr"
        => LET attr == last.args[2].s
               value == last.args[3]
               was == last.args[4]
               is == heap[held[last.at[1]].at]
           IN  /\ last.out[1] = value
               /\ GetItem(is, attr) = value
               /\ is.keys = was.keys
               /\ \A i \in DOMAIN is.keys : is.keys[i] # attr => is.vals[i] = was.vals[i]
               /\ Identifier(HeldNotes[last.at[1]]) = Identifier(last.args[1])
               /\ \A key \in Range(is.keys) \ {attr} :
                      GetItem(HeldNotes[last.at[1]], key) = GetItem(last.args[1], key)

\* C35 is met: git was assigned the dict the note has under info, after
\* another field had been set
C35_Witness ==
    /\ last.op = "setattr"
    /\ last.args[2].s = "git"
    /\ last.args[3].t = "ref"
    /\ last.args[1] # Note_init("", 1, 0)
    /\ GetItem(heap[held[last.at[1]].at], "git") = GetItem(heap[held[last.at[1]].at], "info")

\* the place of a column in the order of the table: the five leading fields,
\* the keys beginning with metrics, with parameters, with features, target,
\* the keys beginning with info, with git, python_path, every other key
ColumnRank(k) ==
    CASE k = "start_datetime" -> 1
      [] k = "end_datetime" -> 2
      [] k = "text" -> 3
      [] k = "model" -> 4
      [] k = "identifier" -> 5
      [] k \in {"metrics", "metrics.recall"} -> 6
      [] k \in {"parameters.impute_missings"} -> 7
      [] k \in {"features.binary", "features.categorical", "features.identifier",
                "features.numerical"} -> 8
      [] k = "target" -> 9
      [] k \in {"info.k", "info.k._datetime", "information"} -> 10
      [] k \in {"git.branch"} -> 11
      [] k = "python_path" -> 12
      [] OTHER -> 13

\* the place of a name in alphabetical order
Alphabetical(k) == CHOOSE i \in DOMAIN SortedNames : SortedNames[i] = k

C37_TableOfRecords ==
    last.op = "_pandas_dict"
        => LET notes == last.args[1]
               table == last.out[1]
               flat == [i \in DOMAIN notes |-> _flatten_dict(notes[i], "")]
           IN  /\ Succeeded
               /\ Range(table.keys) = UNION {Range(flat[i].keys) : i \in DOMAIN flat}
               /\ \A c \in DOMAIN table.keys :
                      /\ table.vals[c].t = "list"
                      /\ Len(table.vals[c].items) = Len(notes)
                      /\ \A i \in DOMAIN notes :
                             table.vals[c].items[i] = DictGet(flat[i], table.keys[c])

\* C38: after every add of the legacy JSONStore, whether it returned, was
\* rejected for an identifier already stored or failed while the experiments
\* were written, the file can be loaded and the mapping experiments of the
\* store is what the file holds.
C38_LegacyMemoryIsFile ==
    last.op = "JSONStore.add"
        => /\ JSONStore_json_load(file).exc = ""
           /\ heap[1].experiments = JSONStore_json_load(file).content

====
